---- MODULE Spec2Model ----
(***************************************************************************)
(* Model of kivy/input/postproc/calibration.py: InputPostprocCalibration.  *)
(*                                                                         *)
(* Two specifications share the variables:                                 *)
(*   SpecBuild  __init__ parsing the 'postproc:calibration' section,       *)
(*              one token of one entry per step;                           *)
(*   Spec       process() called on batches of (etype, event) pairs by a   *)
(*              stage whose table __init__ has built, one batch entry per  *)
(*              step.                                                      *)
(*                                                                         *)
(* Numbers: Python floats are modelled as exact rationals <<n, d>> in      *)
(* lowest terms (d > 0); IEEE-754 rounding is outside the model.           *)
(* Strings are TLA+ strings, read character by character as the str        *)
(* methods of the source read them.                                        *)
(***************************************************************************)
EXTENDS Integers, Sequences, FiniteSets, TLC

VARIABLES
    config,        \* Config.items('postproc:calibration'), or NoSection
    ci,            \* __init__: index of the entry the outer loop is at
    toks,          \* __init__: params_str.split(',') of that entry
    ti,            \* __init__: index of the token the inner loop is at
    params,        \* __init__: the dict being filled for that entry
    exc,           \* the exception that left __init__, or "none"
    log,           \* keys handed to Logger.error, in order
    devices,       \* self.devices
    frame,         \* self.frame
    provider_map,  \* self.provider_map
    evs,           \* the event objects: device, class, sx, sy, ud
    pc,            \* where the stage is: in __init__, idle, in process, returned
    events,        \* process: the batch passed in
    idx,           \* process: position of the for loop in the batch
    dev,           \* process: the key resolved for the last entry handled
    ret,           \* process: the value returned by the last call
    input,         \* history: the batch as it was when process was called
    applied,       \* history: transforms applied per event in this call
    total,         \* history: transforms applied per event, all calls
    submitted,     \* history: calls that held the event as a non-'end' entry
    calls          \* history: process calls made so far

build_vars == <<config, ci, toks, ti, params, exc, log>>
stage_vars == <<devices, frame, provider_map>>
call_vars  == <<events, idx, dev, ret>>
hist_vars  == <<input, applied, total, submitted, calls>>
vars == <<build_vars, stage_vars, evs, pc, call_vars, hist_vars>>

(***************************************************************************)
(* Bounds of the model.                                                    *)
(***************************************************************************)
MaxBatch == 2      \* longest batch handed to process
MaxFrame == 2      \* process calls explored
MaxTokens == 2     \* most tokens joined into a generated parameter string

(***************************************************************************)
(* Rational arithmetic standing for Python float arithmetic.               *)
(***************************************************************************)
Abs(n) == IF n < 0 THEN -n ELSE n

RECURSIVE GCD(_, _)
GCD(a, b) == IF b = 0 THEN a ELSE GCD(b, a % b)

Rat(n, d) ==
    LET g == GCD(Abs(n), d) IN <<n \div g, d \div g>>

RMul(a, b) == Rat(a[1] * b[1], a[2] * b[2])

RAdd(a, b) == Rat(a[1] * b[2] + b[1] * a[2], a[2] * b[2])

(***************************************************************************)
(* str methods used by __init__.                                           *)
(***************************************************************************)
None == "<None>"

At(s, i) == SubSeq(s, i, i)

IsSpace(c) == c \in {" ", "\t"}

\* s.find(c) from position i, 1-based; 0 when absent
RECURSIVE Find(_, _, _)
Find(s, c, i) ==
    IF i > Len(s) THEN 0
    ELSE IF At(s, i) = c THEN i ELSE Find(s, c, i + 1)

\* s.split(c): every piece between separators, empty pieces included
RECURSIVE Split(_, _)
Split(s, c) ==
    LET k == Find(s, c, 1) IN
    IF k = 0 THEN <<s>>
    ELSE <<SubSeq(s, 1, k - 1)>> \o Split(SubSeq(s, k + 1, Len(s)), c)

\* s.split(c, 1): at most one split, at the first separator
Split1(s, c) ==
    LET k == Find(s, c, 1) IN
    IF k = 0 THEN <<s>>
    ELSE <<SubSeq(s, 1, k - 1), SubSeq(s, k + 1, Len(s))>>

RECURSIVE LStrip(_)
LStrip(s) ==
    IF Len(s) > 0 /\ IsSpace(At(s, 1)) THEN LStrip(SubSeq(s, 2, Len(s))) ELSE s

RECURSIVE RStrip(_)
RStrip(s) ==
    IF Len(s) > 0 /\ IsSpace(At(s, Len(s)))
    THEN RStrip(SubSeq(s, 1, Len(s) - 1)) ELSE s

\* s.strip()
Strip(s) == RStrip(LStrip(s))

(***************************************************************************)
(* float(value) on decimal literals: surrounding whitespace, an optional   *)
(* sign, digits with at most one point and at least one digit.  IsFloat    *)
(* tells whether float(value) returns; when it does not, it raises         *)
(* ValueError.  Exponents, 'inf', 'nan' and digit separators are not       *)
(* modelled; no string of the model uses them.                             *)
(***************************************************************************)
Digits == <<"0", "1", "2", "3", "4", "5", "6", "7", "8", "9">>

IsDigit(c) == \E k \in DOMAIN Digits : Digits[k] = c

DigitVal(c) == (CHOOSE k \in DOMAIN Digits : Digits[k] = c) - 1

RECURSIVE AllDigits(_)
AllDigits(s) ==
    Len(s) = 0 \/ (IsDigit(At(s, 1)) /\ AllDigits(SubSeq(s, 2, Len(s))))

\* value of a digit string, most significant digit first
RECURSIVE IntVal(_)
IntVal(s) ==
    IF Len(s) = 0 THEN 0
    ELSE 10 * IntVal(SubSeq(s, 1, Len(s) - 1)) + DigitVal(At(s, Len(s)))

RECURSIVE Pow10(_)
Pow10(k) == IF k = 0 THEN 1 ELSE 10 * Pow10(k - 1)

Unsigned(value) ==
    LET s == Strip(value) IN
    IF Len(s) > 0 /\ At(s, 1) \in {"-", "+"} THEN SubSeq(s, 2, Len(s)) ELSE s

IntPart(value) ==
    LET b == Unsigned(value)
        p == Find(b, ".", 1)
    IN  IF p = 0 THEN b ELSE SubSeq(b, 1, p - 1)

FracPart(value) ==
    LET b == Unsigned(value)
        p == Find(b, ".", 1)
    IN  IF p = 0 THEN "" ELSE SubSeq(b, p + 1, Len(b))

IsFloat(value) ==
    /\ AllDigits(IntPart(value))
    /\ AllDigits(FracPart(value))
    /\ Len(IntPart(value)) + Len(FracPart(value)) > 0

Float(value) ==
    LET s   == Strip(value)
        neg == Len(s) > 0 /\ At(s, 1) = "-"
        fp  == FracPart(value)
        mag == IntVal(IntPart(value)) * Pow10(Len(fp)) + IntVal(fp)
    IN  Rat(IF neg THEN -mag ELSE mag, Pow10(Len(fp)))

(***************************************************************************)
(* dict operations.  A dict is a function; {} is the empty function.       *)
(***************************************************************************)
EmptyDict == <<>>

DictSet(d, k, v) == [x \in DOMAIN d \cup {k} |-> IF x = k THEN v ELSE d[x]]

(***************************************************************************)
(* The configuration sources __init__ is run on.  A source is what         *)
(* Config.has_section and Config.items give for 'postproc:calibration'.    *)
(***************************************************************************)
RECURSIVE Join(_, _)
Join(seq, sep) ==
    IF Len(seq) = 0 THEN ""
    ELSE IF Len(seq) = 1 THEN seq[1]
    ELSE seq[1] \o sep \o Join(Tail(seq), sep)

Tokens ==
    { "xratio=0.5", "yoffset=0.25", " xoffset=0.1 ", "foo=bar", "foo=1.5",
      "xratio=notanumber", "yratio", "", " " }

FullStrs ==
    { "xratio=0.5,xoffset=0.1,yratio=2.0,yoffset=0.0",
      "yoffset=0.0,yratio=2.0,xoffset=0.1,xratio=0.5",
      ",xratio=0.5,, xoffset=0.1 ,yratio=2.0, ",
      "xoffset=0.1,foo=1.5,yratio=2.0",
      "xoffset=0.1,foo=bar,yratio=2.0",
      "xoffset=0.1,xratio=notanumber,yratio=2.0" }

ParamStrs ==
    FullStrs \cup
    { Join(q, ",") : q \in UNION { [1..k -> Tokens] : k \in 0..MaxTokens } }

PlainEntries == { <<"(mtdev)", "xratio=0.3333">>, <<"left", "yratio=3">> }

Section(items) == [has_section |-> TRUE, items |-> items]

NoSection == [has_section |-> FALSE, items |-> <<>>]

BuildConfigs ==
    {NoSection, Section(<<>>)}
    \cup { Section(<<(<<"left", s>>)>>) : s \in ParamStrs }
    \cup { Section(<<(<<"left", s>>), e>>) : s \in ParamStrs, e \in PlainEntries }
    \cup { Section(<<e, (<<"left", s>>)>>) : s \in ParamStrs, e \in PlainEntries }

(***************************************************************************)
(* __init__, lines 67-79: the body of the two loops.                       *)
(***************************************************************************)
FieldNames == {"xoffset", "yoffset", "xratio", "yratio"}

default_params ==
    [k \in FieldNames |-> IF k \in {"xratio", "yratio"} THEN <<1, 1>> ELSE <<0, 1>>]

\* line 74: key, value = param.split('=', 1), param already stripped
ParamKey(param) == Split1(param, "=")[1]

ParamValue(param) == Split1(param, "=")[2]

\* line 74 raises ValueError when there is no '=' to unpack at
UnpackRaises(param) == Len(Split1(param, "=")) < 2

\* lines 74 and 78: the two places a token can raise ValueError
ParamRaises(param) ==
    IF UnpackRaises(param) THEN TRUE ELSE ~IsFloat(ParamValue(param))

\* line 75: the test guarding Logger.error
ParamLogged(param) == ParamKey(param) \notin FieldNames

\* line 78: params[key] = float(value), for whatever key the token names
ParamStore(p, param) == DictSet(p, ParamKey(param), Float(ParamValue(param)))

\* lines 70-78 for the tokens toks[i..]: ok is FALSE when a token raised
RECURSIVE ParseTokens(_, _, _)
ParseTokens(tk, i, p) ==
    IF i > Len(tk) THEN [ok |-> TRUE, params |-> p]
    ELSE LET param == Strip(tk[i]) IN
         IF param = "" THEN ParseTokens(tk, i + 1, p)
         ELSE IF ParamRaises(param) THEN [ok |-> FALSE, params |-> p]
         ELSE ParseTokens(tk, i + 1, ParamStore(p, param))

\* lines 68-79 for the entries items[i..]
RECURSIVE BuildEntries(_, _, _)
BuildEntries(items, i, d) ==
    IF i > Len(items) THEN [ok |-> TRUE, devices |-> d]
    ELSE LET r == ParseTokens(Split(items[i][2], ","), 1, default_params) IN
         IF ~r.ok THEN [ok |-> FALSE, devices |-> d]
         ELSE BuildEntries(items, i + 1, DictSet(d, items[i][1], r.params))

\* __init__ as a whole: the table, and whether the constructor returned
Build(cfg) ==
    IF ~cfg.has_section THEN [ok |-> TRUE, devices |-> EmptyDict]
    ELSE BuildEntries(cfg.items, 1, EmptyDict)

(***************************************************************************)
(* The provider registry read by _get_provider_map: MotionEventFactory     *)
(* .list() in its order, each provider module's __all__, and the class     *)
(* hierarchy issubclass and isinstance walk.  The registry is an input of  *)
(* the stage; this one has a provider type without event classes and an    *)
(* event class that two provider types accept.                             *)
(***************************************************************************)
Registry ==
    << [name |-> "probesysfs", all |-> <<"ProbeSysfsHardwareProbe">>],
       [name |-> "mtdev",
        all  |-> <<"MTDMotionEventProvider", "MTDMotionEvent">>],
       [name |-> "hidinput",
        all  |-> <<"HIDInputMotionEventProvider", "HIDMotionEvent">>] >>

Classes ==
    { "object", "MotionEvent", "MotionEventProvider", "ProbeSysfsHardwareProbe",
      "MTDMotionEventProvider", "HIDInputMotionEventProvider",
      "HIDMotionEvent", "MTDMotionEvent", "MouseMotionEvent" }

Base(c) ==
    CASE c = "MotionEvent"                 -> "object"
      [] c = "MotionEventProvider"         -> "object"
      [] c = "ProbeSysfsHardwareProbe"     -> "MotionEventProvider"
      [] c = "MTDMotionEventProvider"      -> "MotionEventProvider"
      [] c = "HIDInputMotionEventProvider" -> "MotionEventProvider"
      [] c = "HIDMotionEvent"              -> "MotionEvent"
      [] c = "MTDMotionEvent"              -> "HIDMotionEvent"
      [] c = "MouseMotionEvent"            -> "MotionEvent"
      [] OTHER                             -> "object"

RECURSIVE IsSubclass(_, _)
IsSubclass(c, b) ==
    c = b \/ (c # "object" /\ IsSubclass(Base(c), b))

\* lines 85-89: the MotionEvent subclasses among p.__all__, in order
RECURSIVE EventClasses(_, _)
EventClasses(all, j) ==
    IF j > Len(all) THEN <<>>
    ELSE (IF IsSubclass(all[j], "MotionEvent") THEN <<all[j]>> ELSE <<>>)
         \o EventClasses(all, j + 1)

\* lines 81-92: the dict as the sequence of its items, in insertion order
RECURSIVE ProviderItems(_, _)
ProviderItems(reg, i) ==
    IF i > Len(reg) THEN <<>>
    ELSE LET ev == EventClasses(reg[i].all, 1) IN
         (IF Len(ev) > 0 THEN <<(<<reg[i].name, ev>>)>> ELSE <<>>)
         \o ProviderItems(reg, i + 1)

_get_provider_map == ProviderItems(Registry, 1)

(***************************************************************************)
(* The event objects the providers hand to the stage.                      *)
(***************************************************************************)
MARKER == "calibration:frame"

EventIds == {"e1", "e2", "e3"}

InitEvs ==
    [e \in EventIds |->
        CASE e = "e1" -> [device |-> "left", cls |-> "MTDMotionEvent",
                          sx |-> <<2, 5>>, sy |-> <<3, 10>>, ud |-> EmptyDict]
          [] e = "e2" -> [device |-> "middle", cls |-> "MTDMotionEvent",
                          sx |-> <<1, 2>>, sy |-> <<1, 4>>, ud |-> EmptyDict]
          [] e = "e3" -> [device |-> "right", cls |-> "MouseMotionEvent",
                          sx |-> <<3, 4>>, sy |-> <<1, 1>>, ud |-> EmptyDict]]

ETypes == {"update", "end"}

Batches ==
    UNION { [1..k -> ETypes \X EventIds] : k \in 0..MaxBatch }

Zero == [e \in EventIds |-> 0]

(***************************************************************************)
(* __init__ (lines 60-79), one step per token.                             *)
(***************************************************************************)
NoCall ==
    /\ evs = InitEvs
    /\ events = <<>> /\ idx = 0 /\ dev = None /\ ret = <<>>
    /\ input = <<>> /\ applied = Zero /\ total = Zero /\ submitted = Zero
    /\ calls = 0

\* lines 62-64, at the test of line 65
InitBuild ==
    /\ config \in BuildConfigs
    /\ ci = 0 /\ toks = <<>> /\ ti = 0 /\ params = EmptyDict
    /\ exc = "none" /\ log = <<>>
    /\ devices = EmptyDict
    /\ frame = 0
    /\ provider_map = _get_provider_map
    /\ pc = "init"
    /\ NoCall

not_built == <<stage_vars, evs, call_vars, hist_vars>>

\* lines 65-66: no section, the constructor returns
NoSectionReturn ==
    /\ pc = "init" /\ ~config.has_section
    /\ pc' = "idle"
    /\ UNCHANGED <<build_vars, not_built>>

\* lines 65-68: the section exists, the outer loop starts
SectionFound ==
    /\ pc = "init" /\ config.has_section
    /\ pc' = "entries" /\ ci' = 1
    /\ UNCHANGED <<config, toks, ti, params, exc, log, not_built>>

\* EntryStart gone wrong: no copy, the entries share one dict of defaults
EntryStartNoCopy ==
    /\ pc = "entries" /\ ci <= Len(config.items)
    /\ params' = IF ci = 1 THEN default_params ELSE params
    /\ toks' = Split(config.items[ci][2], ",")
    /\ ti' = 1
    /\ pc' = "tokens"
    /\ UNCHANGED <<config, ci, exc, log, not_built>>

\* lines 68-70: next entry, a fresh copy of the defaults, the split
EntryStart ==
    /\ pc = "entries" /\ ci <= Len(config.items)
    /\ params' = default_params
    /\ toks' = Split(config.items[ci][2], ",")
    /\ ti' = 1
    /\ pc' = "tokens"
    /\ UNCHANGED <<config, ci, exc, log, not_built>>

\* TokenEmpty gone wrong: no test for an empty token, the unpacking raises
TokenEmptyRaises ==
    /\ pc = "tokens" /\ ti <= Len(toks)
    /\ Strip(toks[ti]) = ""
    /\ exc' = "ValueError"
    /\ pc' = "raised"
    /\ UNCHANGED <<config, ci, toks, ti, params, log, not_built>>

\* lines 71-73: an empty token is passed over
TokenEmpty ==
    /\ pc = "tokens" /\ ti <= Len(toks)
    /\ Strip(toks[ti]) = ""
    /\ ti' = ti + 1
    /\ UNCHANGED <<config, ci, toks, params, exc, log, pc, not_built>>

\* lines 74-78 when nothing raises: log an unknown key, then store
TokenStore ==
    /\ pc = "tokens" /\ ti <= Len(toks)
    /\ LET param == Strip(toks[ti]) IN
        /\ param # ""
        /\ ~ParamRaises(param)
        /\ log' = IF ParamLogged(param) THEN Append(log, ParamKey(param)) ELSE log
        /\ params' = ParamStore(params, param)
    /\ ti' = ti + 1
    /\ UNCHANGED <<config, ci, toks, exc, pc, not_built>>

\* lines 74-78 when the unpacking or float(value) raises: ValueError
\* leaves __init__; Logger.error of line 76 has run if the key was unknown
TokenRaise ==
    /\ pc = "tokens" /\ ti <= Len(toks)
    /\ LET param == Strip(toks[ti]) IN
        /\ param # ""
        /\ ParamRaises(param)
        /\ log' = IF UnpackRaises(param) THEN log
                  ELSE IF ParamLogged(param) THEN Append(log, ParamKey(param))
                  ELSE log
    /\ exc' = "ValueError"
    /\ pc' = "raised"
    /\ UNCHANGED <<config, ci, toks, ti, params, not_built>>

\* line 79: the inner loop is over, the entry is stored
EntryStore ==
    /\ pc = "tokens" /\ ti > Len(toks)
    /\ devices' = DictSet(devices, config.items[ci][1], params)
    /\ ci' = ci + 1
    /\ pc' = "entries"
    /\ UNCHANGED <<config, toks, ti, params, exc, log, frame, provider_map,
                   evs, call_vars, hist_vars>>

\* the outer loop is over, the constructor returns
BuildReturn ==
    /\ pc = "entries" /\ ci > Len(config.items)
    /\ pc' = "idle"
    /\ UNCHANGED <<build_vars, not_built>>

NextBuild ==
    \/ NoSectionReturn
    \/ SectionFound
    \/ EntryStart
    \/ TokenEmpty
    \/ TokenStore
    \/ TokenRaise
    \/ EntryStore
    \/ BuildReturn

SpecBuild == InitBuild /\ [][NextBuild]_vars

(***************************************************************************)
(* process (lines 101-130), one step per batch entry.                      *)
(***************************************************************************)
ProcessConfigs ==
    { NoSection,
      Section(<<>>),
      Section(<< <<"left", "xratio=0.5,xoffset=0.1,yratio=2.0,yoffset=0.0">>,
                 <<"(mtdev)", "xratio=2,yoffset=0.5">>,
                 <<"(hidinput)", "xoffset=0.25">> >>),
      Section(<< <<"(hidinput)", "xratio=0.5,yratio=0.5">>,
                 <<"right", "xoffset=-0.25">> >>) }

\* the stage as __init__ leaves it when it returns
Init ==
    /\ config \in ProcessConfigs
    /\ Build(config).ok
    /\ ci = 0 /\ toks = <<>> /\ ti = 0 /\ params = EmptyDict
    /\ exc = "none" /\ log = <<>>
    /\ devices = Build(config).devices
    /\ frame = 0
    /\ provider_map = _get_provider_map
    /\ pc = "idle"
    /\ NoCall

\* line 97-98: does the inner loop return at one of ev_class[j..]
RECURSIVE ClassLoop(_, _, _, _)
ClassLoop(ev_class, j, event, key) ==
    IF j > Len(ev_class) THEN FALSE
    ELSE IF IsSubclass(event.cls, ev_class[j]) /\ key \in DOMAIN devices THEN TRUE
    ELSE ClassLoop(ev_class, j + 1, event, key)

\* ProviderLoop gone wrong: the last matching provider type wins
RECURSIVE ProviderLoopLast(_, _)
ProviderLoopLast(i, event) ==
    IF i > Len(provider_map) THEN None
    ELSE LET key   == "(" \o provider_map[i][1] \o ")"
             later == ProviderLoopLast(i + 1, event)
         IN  IF later # None THEN later
             ELSE IF ClassLoop(provider_map[i][2], 1, event, key) THEN key
             ELSE None

\* lines 95-99 from item i of provider_map on; None when the loop runs out
RECURSIVE ProviderLoop(_, _)
ProviderLoop(i, event) ==
    IF i > Len(provider_map) THEN None
    ELSE LET key == "(" \o provider_map[i][1] \o ")" IN
         IF ClassLoop(provider_map[i][2], 1, event, key) THEN key
         ELSE ProviderLoop(i + 1, event)

_get_provider_key(event) == ProviderLoop(1, event)

\* TableEmpty gone wrong: the fast path is never taken
TableEmptyNever == FALSE

\* line 103: 'not self.devices'
TableEmpty == DOMAIN devices = {}

\* IsEnd gone wrong: 'end' entries are handled like the others
IsEndNever(etype) == FALSE

\* line 111
IsEnd(etype) == etype = "end"

\* Resolve gone wrong: the provider-type key is tried before the device id
ResolveProviderFirst(event) ==
    IF _get_provider_key(event) # None THEN _get_provider_key(event)
    ELSE IF event.device \in DOMAIN devices THEN event.device
    ELSE None

\* lines 114-117
Resolve(event) ==
    IF event.device \in DOMAIN devices THEN event.device
    ELSE _get_provider_key(event)

\* line 118: 'not dev' is False
Truthy(d) == d # None /\ d # ""

\* Calibrated gone wrong: the marker is never looked at
CalibratedNever(event) == FALSE

\* Calibrated gone wrong: any marker counts, whatever its frame
CalibratedAnyFrame(event) == MARKER \in DOMAIN event.ud

\* lines 122-125: the entry is skipped as already calibrated in this frame
Calibrated(event) ==
    IF MARKER \notin DOMAIN event.ud THEN FALSE
    ELSE event.ud[MARKER] = frame

\* Transform gone wrong: sy is computed with the x parameters
TransformXParams(event, p) ==
    [event EXCEPT
        !.sx = RAdd(RMul(event.sx, p["xratio"]), p["xoffset"]),
        !.sy = RAdd(RMul(event.sy, p["xratio"]), p["xoffset"]),
        !.ud = DictSet(event.ud, MARKER, frame)]

\* Transform gone wrong: the marker written is the next frame's
TransformNextFrame(event, p) ==
    [event EXCEPT
        !.sx = RAdd(RMul(event.sx, p["xratio"]), p["xoffset"]),
        !.sy = RAdd(RMul(event.sy, p["yratio"]), p["yoffset"]),
        !.ud = DictSet(event.ud, MARKER, frame + 1)]

\* lines 126-129, with the marker write of line 123
Transform(event, p) ==
    [event EXCEPT
        !.sx = RAdd(RMul(event.sx, p["xratio"]), p["xoffset"]),
        !.sy = RAdd(RMul(event.sy, p["yratio"]), p["yoffset"]),
        !.ud = DictSet(event.ud, MARKER, frame)]

\* ReturnValue gone wrong: the 'end' entries are dropped from the batch
RECURSIVE ReturnValueNoEnd(_)
ReturnValueNoEnd(evts) ==
    IF Len(evts) = 0 THEN <<>>
    ELSE (IF Head(evts)[1] = "end" THEN <<>> ELSE <<Head(evts)>>)
         \o ReturnValueNoEnd(Tail(evts))

\* lines 104 and 130: return events
ReturnValue(evts) == evts

Bump(f, e) == [f EXCEPT ![e] = f[e] + 1]

NonEnd(b, e) == \E i \in DOMAIN b : ~IsEnd(b[i][1]) /\ b[i][2] = e

\* lines 103-104: the table is empty, the batch goes back untouched
ProcessFast(b) ==
    /\ pc = "idle"
    /\ TableEmpty
    /\ calls < MaxFrame
    /\ calls' = calls + 1
    /\ events' = b /\ input' = b
    /\ ret' = ReturnValue(b)
    /\ pc' = "returned"
    /\ UNCHANGED <<build_vars, stage_vars, evs, idx, dev, applied, total,
                   submitted>>

\* ProcessBegin gone wrong: an empty batch does not move the frame counter
ProcessBeginSkipsEmpty(b) ==
    /\ pc = "idle"
    /\ ~TableEmpty
    /\ calls < MaxFrame
    /\ calls' = calls + 1
    /\ frame' = IF Len(b) = 0 THEN frame ELSE frame + 1
    /\ events' = b /\ input' = b
    /\ idx' = 1
    /\ pc' = "loop"
    /\ submitted' = [e \in EventIds |->
                        IF NonEnd(b, e) THEN submitted[e] + 1 ELSE submitted[e]]
    /\ UNCHANGED <<build_vars, devices, provider_map, evs, dev, ret, applied,
                   total>>

\* lines 103-108: the frame counter moves, the loop starts
ProcessBegin(b) ==
    /\ pc = "idle"
    /\ ~TableEmpty
    /\ calls < MaxFrame
    /\ calls' = calls + 1
    /\ frame' = frame + 1
    /\ events' = b /\ input' = b
    /\ idx' = 1
    /\ pc' = "loop"
    /\ submitted' = [e \in EventIds |->
                        IF NonEnd(b, e) THEN submitted[e] + 1 ELSE submitted[e]]
    /\ UNCHANGED <<build_vars, devices, provider_map, evs, dev, ret, applied,
                   total>>

loop_fixed ==
    <<build_vars, stage_vars, pc, events, ret, input, submitted, calls>>

\* SkipEnd gone wrong: the marker is written before the type is tested
SkipEndMarks ==
    /\ pc = "loop" /\ idx <= Len(events)
    /\ IsEnd(events[idx][1])
    /\ evs' = [evs EXCEPT ![events[idx][2]].ud = DictSet(@, MARKER, frame)]
    /\ idx' = idx + 1
    /\ UNCHANGED <<loop_fixed, dev, applied, total>>

\* lines 111-112
SkipEnd ==
    /\ pc = "loop" /\ idx <= Len(events)
    /\ IsEnd(events[idx][1])
    /\ idx' = idx + 1
    /\ UNCHANGED <<loop_fixed, evs, dev, applied, total>>

\* SkipUnresolved gone wrong: the marker is written before the key is tested
SkipUnresolvedMarks ==
    /\ pc = "loop" /\ idx <= Len(events)
    /\ ~IsEnd(events[idx][1])
    /\ ~Truthy(Resolve(evs[events[idx][2]]))
    /\ dev' = Resolve(evs[events[idx][2]])
    /\ evs' = [evs EXCEPT ![events[idx][2]].ud = DictSet(@, MARKER, frame)]
    /\ idx' = idx + 1
    /\ UNCHANGED <<loop_fixed, applied, total>>

\* lines 114-119: no key applies
SkipUnresolved ==
    /\ pc = "loop" /\ idx <= Len(events)
    /\ ~IsEnd(events[idx][1])
    /\ ~Truthy(Resolve(evs[events[idx][2]]))
    /\ dev' = Resolve(evs[events[idx][2]])
    /\ idx' = idx + 1
    /\ UNCHANGED <<loop_fixed, evs, applied, total>>

\* lines 122-125: the marker is this frame's
SkipCalibrated ==
    /\ pc = "loop" /\ idx <= Len(events)
    /\ ~IsEnd(events[idx][1])
    /\ Truthy(Resolve(evs[events[idx][2]]))
    /\ Calibrated(evs[events[idx][2]])
    /\ dev' = Resolve(evs[events[idx][2]])
    /\ idx' = idx + 1
    /\ UNCHANGED <<loop_fixed, evs, applied, total>>

\* Calibrate gone wrong: the entry found is cached under the device id
CalibrateCaching ==
    /\ pc = "loop" /\ idx <= Len(events)
    /\ ~IsEnd(events[idx][1])
    /\ Truthy(Resolve(evs[events[idx][2]]))
    /\ ~Calibrated(evs[events[idx][2]])
    /\ LET e == events[idx][2]
           d == Resolve(evs[e])
       IN  /\ dev' = d
           /\ evs' = [evs EXCEPT ![e] = Transform(evs[e], devices[d])]
           /\ devices' = DictSet(devices, evs[e].device, devices[d])
           /\ applied' = Bump(applied, e)
           /\ total' = Bump(total, e)
    /\ idx' = idx + 1
    /\ UNCHANGED <<build_vars, frame, provider_map, pc, events, ret, input,
                   submitted, calls>>

\* lines 122-129: the transform is applied and the marker written
Calibrate ==
    /\ pc = "loop" /\ idx <= Len(events)
    /\ ~IsEnd(events[idx][1])
    /\ Truthy(Resolve(evs[events[idx][2]]))
    /\ ~Calibrated(evs[events[idx][2]])
    /\ LET e == events[idx][2]
           d == Resolve(evs[e])
       IN  /\ dev' = d
           /\ evs' = [evs EXCEPT ![e] = Transform(evs[e], devices[d])]
           /\ applied' = Bump(applied, e)
           /\ total' = Bump(total, e)
    /\ idx' = idx + 1
    /\ UNCHANGED loop_fixed

\* line 130
ProcessReturn ==
    /\ pc = "loop" /\ idx > Len(events)
    /\ ret' = ReturnValue(events)
    /\ pc' = "returned"
    /\ UNCHANGED <<build_vars, stage_vars, evs, events, idx, dev, hist_vars>>

\* the caller has the returned batch; the locals of the call are gone
Consume ==
    /\ pc = "returned"
    /\ pc' = "idle"
    /\ events' = <<>> /\ idx' = 0 /\ dev' = None /\ ret' = <<>>
    /\ input' = <<>> /\ applied' = Zero
    /\ UNCHANGED <<build_vars, stage_vars, evs, total, submitted, calls>>

Next ==
    \/ \E b \in Batches : ProcessFast(b)
    \/ \E b \in Batches : ProcessBegin(b)
    \/ SkipEnd
    \/ SkipUnresolved
    \/ SkipCalibrated
    \/ Calibrate
    \/ ProcessReturn
    \/ Consume

Spec == Init /\ [][Next]_vars

(***************************************************************************)
(* What the properties below talk about.                                   *)
(***************************************************************************)
\* the entry the loop is about to handle, and the one it handled last
AtEntry == pc = "loop" /\ idx <= Len(events)

Handled == pc \in {"loop", "returned"} /\ idx > 1

\* e is a non-'end' entry among the first n entries of batch b
NonEndBefore(b, n, e) ==
    \E i \in DOMAIN b : i <= n /\ b[i][1] # "end" /\ b[i][2] = e

\* the provider types that accept the event and whose key is in the table
Qualifying(event) ==
    { i \in DOMAIN provider_map :
        /\ \E j \in DOMAIN provider_map[i][2] :
                IsSubclass(event.cls, provider_map[i][2][j])
        /\ ("(" \o provider_map[i][1] \o ")") \in DOMAIN devices }

\* the key the fallback is meant to give: the first qualifying type's
FallbackKey(event) ==
    IF Qualifying(event) = {} THEN None
    ELSE LET i == CHOOSE k \in Qualifying(event) :
                      \A m \in Qualifying(event) : k <= m
         IN  "(" \o provider_map[i][1] \o ")"

\* the key that applies to the event, none when there is none
KeyOf(event) ==
    IF event.device \in DOMAIN devices THEN event.device ELSE FallbackKey(event)

\* v = x * ratio + offset, over the integers
IsAffine(v, x, ratio, offset) ==
    v[1] * (x[2] * ratio[2] * offset[2])
        = (x[1] * ratio[1] * offset[2] + offset[1] * x[2] * ratio[2]) * v[2]

\* the event went through the transform of entry p in this step
Moved(old, new, p) ==
    /\ IsAffine(new.sx, old.sx, p["xratio"], p["xoffset"])
    /\ IsAffine(new.sy, old.sy, p["yratio"], p["yoffset"])

Marker(event) == IF MARKER \in DOMAIN event.ud THEN event.ud[MARKER] ELSE 0

(***************************************************************************)
(* C1.  Within one process call on a non-empty table, an event that has    *)
(* come up as a non-'end' entry with a resolvable key has had the          *)
(* transform applied exactly once in that call, however many of its        *)
(* entries were handled, and carries the current frame as its marker; an   *)
(* event that has not come up so has had it applied zero times.            *)
(***************************************************************************)
C1_OncePerCall ==
    (pc \in {"loop", "returned"} /\ DOMAIN devices # {}) =>
        \A e \in EventIds :
            IF NonEndBefore(events, idx - 1, e) /\ KeyOf(evs[e]) # None
            THEN applied[e] = 1 /\ Marker(evs[e]) = frame
            ELSE applied[e] = 0

C1_Witness ==
    /\ pc = "returned"
    /\ \E i, j \in DOMAIN events :
        /\ i < j
        /\ events[i][1] # "end" /\ events[j][1] # "end"
        /\ events[i][2] = events[j][2]
        /\ applied[events[i][2]] = 1

(***************************************************************************)
(* C2.  An event with a marker from an earlier frame is transformed again  *)
(* by a later call and its marker becomes the new frame: when a call has   *)
(* returned, every resolvable event has been transformed as many times as  *)
(* calls held it as a non-'end' entry, and one the last call held so has   *)
(* that call's frame as its marker.                                        *)
(***************************************************************************)
C2_OncePerFrame ==
    (pc = "returned" /\ DOMAIN devices # {}) =>
        \A e \in EventIds :
            KeyOf(evs[e]) # None =>
                /\ total[e] = submitted[e]
                /\ NonEndBefore(input, Len(input), e) => Marker(evs[e]) = frame

C2_Witness ==
    /\ pc = "returned"
    /\ frame > 1
    /\ \E e \in EventIds :
        /\ total[e] = frame
        /\ submitted[e] = frame
        /\ Marker(evs[e]) = frame

(***************************************************************************)
(* C3.  With an empty table process changes nothing, whatever the batch    *)
(* and however many calls: no event's sx, sy or marker changes, the frame  *)
(* counter stays 0, and the value returned is the batch passed in.         *)
(***************************************************************************)
C3_EmptyTableNoOp ==
    (DOMAIN devices = {}) =>
        /\ evs = InitEvs
        /\ frame = 0
        /\ pc \in {"idle", "returned"}
        /\ pc = "returned" => ret = input

C3_Witness ==
    /\ DOMAIN devices = {}
    /\ pc = "returned"
    /\ \E i \in DOMAIN input : input[i][1] # "end"
    /\ ret = input

(***************************************************************************)
(* C4.  Handling a batch entry whose event type is 'end' leaves every      *)
(* event's sx, sy and marker as they were and resolves no key, whatever    *)
(* the table holds.                                                        *)
(***************************************************************************)
C4_EndUntouched ==
    [][(AtEntry /\ events[idx][1] = "end") => (evs' = evs /\ dev' = dev)]_vars

C4_Witness ==
    /\ Handled
    /\ events[idx - 1][1] = "end"
    /\ KeyOf(evs[events[idx - 1][2]]) # None
    /\ Marker(evs[events[idx - 1][2]]) = 0
    /\ evs[events[idx - 1][2]] = InitEvs[events[idx - 1][2]]

(***************************************************************************)
(* C5.  Handling a non-'end' entry whose event's device id is a key of the *)
(* table resolves that device id, and the event, unless already            *)
(* calibrated in this frame, is transformed with the entry stored under    *)
(* the device id, also when a provider-type key applies to the event.      *)
(***************************************************************************)
C5_DeviceKeyFirst ==
    [][(AtEntry /\ events[idx][1] # "end"
            /\ evs[events[idx][2]].device \in DOMAIN devices) =>
        LET e == events[idx][2] IN
            /\ dev' = evs[e].device
            /\ IF Marker(evs[e]) = frame THEN evs' = evs
               ELSE /\ Moved(evs[e], evs'[e], devices[evs[e].device])
                    /\ Marker(evs'[e]) = frame]_vars

C5_Witness ==
    /\ Handled
    /\ events[idx - 1][1] # "end"
    /\ LET e == events[idx - 1][2] IN
        /\ evs[e].device \in DOMAIN devices
        /\ FallbackKey(evs[e]) # None
        /\ devices[FallbackKey(evs[e])] # devices[evs[e].device]
        /\ dev = evs[e].device
        /\ applied[e] = 1

(***************************************************************************)
(* C6.  For a non-'end' entry whose event's device id is not a table key,  *)
(* the key resolved is '(p)' for the first provider type p, in the order   *)
(* of the provider map, that accepts the event's class and whose '(p)' is  *)
(* a key of the table, types with an absent key being passed over; it is   *)
(* none when no provider type qualifies.                                   *)
(***************************************************************************)
C6_FallbackFirstMatch ==
    (Handled /\ events[idx - 1][1] # "end"
        /\ evs[events[idx - 1][2]].device \notin DOMAIN devices)
    => dev = FallbackKey(evs[events[idx - 1][2]])

C6_Witness ==
    /\ Handled
    /\ events[idx - 1][1] # "end"
    /\ LET event == evs[events[idx - 1][2]] IN
        /\ event.device \notin DOMAIN devices
        /\ dev # None
        /\ dev = FallbackKey(event)
        /\ \E i \in DOMAIN provider_map :
            /\ \E j \in DOMAIN provider_map[i][2] :
                    IsSubclass(event.cls, provider_map[i][2][j])
            /\ ("(" \o provider_map[i][1] \o ")") \notin DOMAIN devices
            /\ \A k \in Qualifying(event) : i < k

(***************************************************************************)
(* C7.  Handling a non-'end' entry for which no key applies leaves every   *)
(* event's sx, sy and marker as they were, and the loop goes on to the     *)
(* next entry of the batch.                                                *)
(***************************************************************************)
C7_UnresolvedPassThrough ==
    [][(AtEntry /\ events[idx][1] # "end"
            /\ KeyOf(evs[events[idx][2]]) = None) =>
        (evs' = evs /\ idx' = idx + 1 /\ pc' = "loop")]_vars

C7_Witness ==
    /\ pc = "returned"
    /\ Len(events) > 1
    /\ events[1][1] # "end"
    /\ KeyOf(evs[events[1][2]]) = None
    /\ evs[events[1][2]] = InitEvs[events[1][2]]
    /\ applied[events[2][2]] = 1

(***************************************************************************)
(* C8.  process returns the batch it was given: the same entries, the same *)
(* event types, in the same order, for every batch and table; the batch    *)
(* is not changed while the call runs.                                     *)
(***************************************************************************)
C8_BatchPreserved ==
    /\ pc \in {"loop", "returned"} => events = input
    /\ pc = "returned" => ret = input

C8_Witness ==
    /\ pc = "returned"
    /\ DOMAIN devices # {}
    /\ \E i \in DOMAIN input : input[i][1] = "end"
    /\ \E e \in EventIds : applied[e] = 1
    /\ ret = input

(***************************************************************************)
(* C9.  Whenever process changes an event, its new position is             *)
(* sx * xratio + xoffset and sy * yratio + yoffset for the entry stored    *)
(* under the resolved key, each axis from its own old value and its own    *)
(* two parameters.                                                         *)
(***************************************************************************)
C9_Affine ==
    [][\A e \in EventIds :
        evs'[e] # evs[e] =>
            /\ dev' \in DOMAIN devices
            /\ Moved(evs[e], evs'[e], devices[dev'])]_vars

\* the example: {xratio=0.5, xoffset=0.1, yratio=2.0, yoffset=0.0} takes
\* (0.4, 0.3) to (0.3, 0.6)
C9_Witness ==
    /\ "left" \in DOMAIN devices
    /\ devices["left"]["xratio"] = <<1, 2>>
    /\ devices["left"]["xoffset"] = <<1, 10>>
    /\ devices["left"]["yratio"] = <<2, 1>>
    /\ devices["left"]["yoffset"] = <<0, 1>>
    /\ InitEvs["e1"].sx = <<2, 5>> /\ InitEvs["e1"].sy = <<3, 10>>
    /\ total["e1"] = 1
    /\ evs["e1"].sx = <<3, 10>> /\ evs["e1"].sy = <<3, 5>>

(***************************************************************************)
(* C10.  During table construction a token 'name=value' whose name is not  *)
(* one of the four field names is reported and skipped: the four fields    *)
(* of the entry keep their values, parsing goes on with the next token     *)
(* and no exception leaves the constructor.                                *)
(***************************************************************************)
C10_UnknownKeySkipped ==
    [][(pc = "tokens" /\ ti <= Len(toks)
            /\ Find(Strip(toks[ti]), "=", 1) > 0
            /\ SubSeq(Strip(toks[ti]), 1, Find(Strip(toks[ti]), "=", 1) - 1)
                    \notin FieldNames) =>
        /\ pc' = "tokens"
        /\ ti' = ti + 1
        /\ exc' = "none"
        /\ \A k \in FieldNames : params'[k] = params[k]
        /\ Len(log') = Len(log) + 1]_vars

(***************************************************************************)
(* What the properties of table construction talk about: the tokens of a   *)
(* parameter string by their shape, and the entry a string stands for.     *)
(***************************************************************************)
NameOf(tok) == SubSeq(Strip(tok), 1, Find(Strip(tok), "=", 1) - 1)

ValueOf(tok) ==
    SubSeq(Strip(tok), Find(Strip(tok), "=", 1) + 1, Len(Strip(tok)))

IsBlank(tok) == Strip(tok) = ""

HasName(tok) == ~IsBlank(tok) /\ Find(Strip(tok), "=", 1) > 0

\* a known field with a numeric value
IsGood(tok) ==
    IF HasName(tok) THEN NameOf(tok) \in FieldNames /\ IsFloat(ValueOf(tok))
    ELSE FALSE

\* a known field with a value that is no number
IsBadValue(tok) ==
    IF HasName(tok) THEN NameOf(tok) \in FieldNames /\ ~IsFloat(ValueOf(tok))
    ELSE FALSE

WellFormed(str) ==
    \A t \in DOMAIN Split(str, ",") :
        IsBlank(Split(str, ",")[t]) \/ IsGood(Split(str, ",")[t])

ValueFaulty(str) ==
    /\ \A t \in DOMAIN Split(str, ",") :
            \/ IsBlank(Split(str, ",")[t])
            \/ IsGood(Split(str, ",")[t])
            \/ IsBadValue(Split(str, ",")[t])
    /\ \E t \in DOMAIN Split(str, ",") : IsBadValue(Split(str, ",")[t])

\* the tokens of tk parsed before the first bad value, all when there is none
Parsed(tk) ==
    { t \in DOMAIN tk :
        IsGood(tk[t]) /\ \A u \in DOMAIN tk : IsBadValue(tk[u]) => t < u }

Last(S) == CHOOSE t \in S : \A u \in S : u <= t

\* the entry a string of blank, good and bad-value tokens stands for:
\* each field the value of the last parsed token naming it, else its default
Expected(str) ==
    LET tk == Split(str, ",") IN
    [f \in FieldNames |->
        LET S == { t \in Parsed(tk) : NameOf(tk[t]) = f } IN
        IF S # {} THEN Float(ValueOf(tk[Last(S)]))
        ELSE IF f \in {"xratio", "yratio"} THEN <<1, 1>> ELSE <<0, 1>>]

InitOver == pc \in {"idle", "raised"} /\ config.has_section

\* entry i is the one faulty entry; the others are well formed, other keys
OnlyFaulty(i) ==
    /\ ValueFaulty(config.items[i][2])
    /\ \A j \in DOMAIN config.items :
        j # i => /\ WellFormed(config.items[j][2])
                 /\ config.items[j][1] # config.items[i][1]

(***************************************************************************)
(* C11.  A non-numeric value for a known field stops the parsing of that   *)
(* entry's remaining tokens, and the entry ends with the fields parsed     *)
(* before the bad token at their parsed values and the other fields at     *)
(* their defaults: when construction is over, the table holds that entry.  *)
(***************************************************************************)
C11_BadValueKeepsParsed ==
    InitOver =>
        \A i \in DOMAIN config.items :
            OnlyFaulty(i) =>
                /\ config.items[i][1] \in DOMAIN devices
                /\ devices[config.items[i][1]] = Expected(config.items[i][2])

(***************************************************************************)
(* C12.  A value error in one entry does not abort the other entries:      *)
(* table construction completes, and every entry other than the faulty     *)
(* one, before or after it, is in the table with its parsed parameters.    *)
(***************************************************************************)
C12_OtherEntriesStored ==
    (InitOver /\ Len(config.items) > 1) =>
        \A i \in DOMAIN config.items :
            OnlyFaulty(i) =>
                /\ pc = "idle"
                /\ \A j \in DOMAIN config.items :
                    j # i =>
                        /\ config.items[j][1] \in DOMAIN devices
                        /\ devices[config.items[j][1]]
                                = Expected(config.items[j][2])

(***************************************************************************)
(* C13.  For every well-formed entry, giving any of the four fields in any *)
(* order, the stored entry has each supplied field at its parsed value and *)
(* each other field at its default (ratios 1, offsets 0), and nothing      *)
(* else: what another key's entry set does not show in it.                 *)
(***************************************************************************)
C13_FieldsAndDefaults ==
    (pc = "idle" /\ config.has_section) =>
        \A i \in DOMAIN config.items :
            (/\ WellFormed(config.items[i][2])
             /\ \A j \in DOMAIN config.items :
                    j > i => config.items[j][1] # config.items[i][1])
            => /\ config.items[i][1] \in DOMAIN devices
               /\ devices[config.items[i][1]] = Expected(config.items[i][2])

\* two entries: the second leaves at its default a field the first has set
C13_Witness ==
    /\ pc = "idle"
    /\ config.has_section
    /\ Len(config.items) = 2
    /\ WellFormed(config.items[1][2]) /\ WellFormed(config.items[2][2])
    /\ config.items[1][1] # config.items[2][1]
    /\ DOMAIN devices = {config.items[1][1], config.items[2][1]}
    /\ \E f \in {"xoffset", "yoffset"}, g \in {"xratio", "yratio"} :
        /\ devices[config.items[1][1]][f] # <<0, 1>>
        /\ devices[config.items[2][1]][f] = <<0, 1>>
        /\ devices[config.items[2][1]][g] = <<3333, 10000>>
        /\ devices[config.items[1][1]][g] = <<1, 1>>

(***************************************************************************)
(* C14.  The frame counter starts at 0 and, with a non-empty table, is     *)
(* incremented by exactly 1 per process call, whatever the batch holds:    *)
(* after k calls it equals k, so it never decreases.                       *)
(***************************************************************************)
C14_FrameCountsCalls ==
    /\ calls = 0 => frame = 0
    /\ DOMAIN devices # {} => frame = calls

\* the second call, on a batch with nothing to transform
C14_Witness ==
    /\ pc = "returned"
    /\ DOMAIN devices # {}
    /\ calls > 1
    /\ frame = calls
    /\ \A i \in DOMAIN input : input[i][1] = "end"
    /\ applied = Zero

(***************************************************************************)
(* C15.  process never modifies the calibration table or the provider      *)
(* map: after any sequence of calls both are what construction produced.   *)
(***************************************************************************)
C15_TableReadOnly ==
    /\ devices = Build(config).devices
    /\ provider_map = _get_provider_map

\* an event has been transformed twice through a provider-type key
C15_Witness ==
    /\ pc = "returned"
    /\ calls > 1
    /\ \E e \in EventIds :
        /\ total[e] > 1
        /\ evs[e].device \notin DOMAIN devices
        /\ FallbackKey(evs[e]) \in DOMAIN devices
    /\ devices = Build(config).devices

(***************************************************************************)
(* C16.  Empty tokens of a parameter string (leading, trailing or doubled  *)
(* commas, whitespace-only tokens) are ignored: the entry being built is   *)
(* the one the same tokens give with the empty ones removed, and no empty  *)
(* token raises.                                                           *)
(***************************************************************************)
NonBlank(tk) == SelectSeq(tk, LAMBDA t : Strip(t) # "")

C16_EmptyTokensIgnored ==
    /\ pc = "tokens" =>
        /\ ParseTokens(NonBlank(SubSeq(toks, 1, ti - 1)), 1, default_params).ok
        /\ params =
            ParseTokens(NonBlank(SubSeq(toks, 1, ti - 1)), 1, default_params).params
    /\ pc = "raised" =>
        /\ Strip(toks[ti]) # ""
        /\ ~ParseTokens(NonBlank(SubSeq(toks, 1, ti)), 1, default_params).ok

\* a leading comma, a doubled comma and a whitespace-only last token
C16_Witness ==
    /\ pc = "tokens"
    /\ ti > Len(toks)
    /\ Len(toks) > 3
    /\ toks[1] = ""
    /\ \E t \in DOMAIN toks : t > 1 /\ t < Len(toks) /\ toks[t] = ""
    /\ toks[Len(toks)] # "" /\ Strip(toks[Len(toks)]) = ""
    /\ params["xratio"] = <<1, 2>>
    /\ params["xoffset"] = <<1, 10>>
    /\ params["yratio"] = <<2, 1>>

(***************************************************************************)
(* C17.  Every event that carries a calibration-frame marker m has         *)
(* 1 <= m <= frame: no marker is ever ahead of the stage's frame counter.  *)
(***************************************************************************)
C17_MarkerWithinFrame ==
    \A e \in EventIds :
        MARKER \in DOMAIN evs[e].ud =>
            /\ 1 <= evs[e].ud[MARKER]
            /\ evs[e].ud[MARKER] <= frame

\* one event marked in this frame, another still marked with an earlier one
C17_Witness ==
    /\ pc = "loop"
    /\ frame > 1
    /\ \E e \in EventIds :
            MARKER \in DOMAIN evs[e].ud /\ evs[e].ud[MARKER] = frame
    /\ \E e \in EventIds :
            MARKER \in DOMAIN evs[e].ud /\ evs[e].ud[MARKER] < frame

(***************************************************************************)
(* C18.  The marker is written only together with a transform.  An event   *)
(* carries a marker if and only if the stage has transformed it at least   *)
(* once; the marker is the frame of the most recent call that transformed  *)
(* it (the current frame exactly when this call transformed it, and every  *)
(* step that transforms an event writes the frame of its call); a step     *)
(* that does not transform an event ('end', unresolvable, already          *)
(* calibrated) leaves its user data as it was.                             *)
(***************************************************************************)
MarkerIffTransformed ==
    \A e \in EventIds :
        /\ (MARKER \in DOMAIN evs[e].ud) <=> (total[e] > 0)
        /\ (pc \in {"loop", "returned"} /\ DOMAIN devices # {}) =>
                ((applied[e] > 0) <=> (Marker(evs[e]) = frame))

MarkerWithTransform ==
    \A e \in EventIds :
        IF total'[e] # total[e]
        THEN /\ Marker(evs'[e]) = frame'
             /\ frame' = calls'
        ELSE evs'[e] = evs[e]

C18_MarkerTracksTransform ==
    [](MarkerIffTransformed) /\ [][MarkerWithTransform]_vars

\* second call returned: one event transformed in the first call and skipped
\* as 'end' in the second, one transformed in the second, one that came up
\* without a key and was never marked
C18_Witness ==
    /\ pc = "returned"
    /\ frame = 2
    /\ \E e1, e2, e3 \in EventIds :
        /\ total[e1] = 1 /\ Marker(evs[e1]) = 1
        /\ \E i \in DOMAIN input : input[i] = <<"end", e1>>
        /\ applied[e2] = 1 /\ Marker(evs[e2]) = 2
        /\ submitted[e3] > 0 /\ total[e3] = 0
        /\ MARKER \notin DOMAIN evs[e3].ud

====
